---- MODULE Spec2Model ----
(***************************************************************************)
(* ManPage Explorer (src/manpage-explorer.py): the catalog scan of         *)
(* populate_tree, the tree filter, the entry load and the highlight search *)
(* with its match navigation.                                              *)
(*                                                                         *)
(* Strings are sequences of one-character strings, so that slicing,        *)
(* splitting, comparison and case folding are computed, not assumed.       *)
(***************************************************************************)
EXTENDS Integers, Sequences, FiniteSets, TLC

VARIABLES
    manpaths,             \* the search path as manpath prints it, with each directory's contents
    tree,                 \* self.tree: the root item, its section items, their entry items
    pc,                   \* "init" before __init__ ran, "ready" once it returned, "raised" if it raised
    text_area,            \* self.text_area: the displayed plain text
    man_search_text,      \* self.man_search_text: the text of the highlight query field
    search_matches,       \* self.search_matches: the list of match cursors, as <<start, end>> spans
    current_match_index,  \* self.current_match_index
    match_label,          \* self.match_label: <<>> when blank, <<i, n>> for the text "i of n"
    highlighted,          \* the spans of the document that carry the yellow background
    text_cursor,          \* the text area's own cursor, as an <<anchor, position>> span
    last                  \* the handler that ran last, with its input and the renderer request it made

vars == <<manpaths, tree, pc, text_area, man_search_text, search_matches,
          current_match_index, match_label, highlighted, text_cursor, last>>

(***************************************************************************)
(* Bounds of the model.                                                    *)
(***************************************************************************)
\* the directories manpath prints, at most
MaxPaths == 2

\* the man* directories of a search-path directory of SectionPaths, at most
MaxSections == 2

\* the length of the text typed into the highlight query field, at most
MaxQueryLen == 2

\* the length of the text typed into the filter field, at most
MaxFilterLen == 2

(***************************************************************************)
(* Characters and strings as Python compares and slices them.              *)
(***************************************************************************)
\* ord(c) for the characters of the model
Ord(c) ==
    CASE c = " " -> 32  [] c = "." -> 46  [] c = ":" -> 58
      [] c = "0" -> 48  [] c = "1" -> 49  [] c = "3" -> 51  [] c = "9" -> 57
      [] c = "A" -> 65  [] c = "C" -> 67  [] c = "D" -> 68
      [] c = "E" -> 69  [] c = "L" -> 76  [] c = "M" -> 77  [] c = "P" -> 80
      [] c = "R" -> 82  [] c = "S" -> 83  [] c = "Z" -> 90
      [] c = "a" -> 97  [] c = "b" -> 98  [] c = "c" -> 99  [] c = "d" -> 100
      [] c = "e" -> 101 [] c = "g" -> 103 [] c = "i" -> 105 [] c = "l" -> 108
      [] c = "m" -> 109 [] c = "n" -> 110 [] c = "o" -> 111 [] c = "p" -> 112
      [] c = "r" -> 114 [] c = "s" -> 115 [] c = "t" -> 116 [] c = "x" -> 120
      [] c = "z" -> 122

\* the character str.lower() maps c to
LowerChar(c) ==
    CASE c = "A" -> "a" [] c = "C" -> "c" [] c = "D" -> "d" [] c = "E" -> "e" [] c = "L" -> "l" [] c = "M" -> "m" [] c = "P" -> "p"
      [] c = "R" -> "r" [] c = "S" -> "s" [] c = "Z" -> "z"
      [] OTHER -> c

\* str.lower()
Lower(s) == [i \in 1..Len(s) |-> LowerChar(s[i])]

RECURSIVE StripLeft(_)
StripLeft(s) ==
    IF s # <<>> /\ Head(s) = " " THEN StripLeft(Tail(s)) ELSE s

RECURSIVE StripRight(_)
StripRight(s) ==
    IF s # <<>> /\ s[Len(s)] = " " THEN StripRight(SubSeq(s, 1, Len(s) - 1)) ELSE s

\* str.strip()
Strip(s) == StripRight(StripLeft(s))

\* a < b on Python strings: by code point, a proper prefix first
RECURSIVE StrLess(_, _)
StrLess(a, b) ==
    IF b = <<>> THEN FALSE
    ELSE IF a = <<>> THEN TRUE
    ELSE IF Head(a) = Head(b) THEN StrLess(Tail(a), Tail(b))
    ELSE Ord(Head(a)) < Ord(Head(b))

\* '.' in s
HasDot(s) == \E i \in 1..Len(s) : s[i] = "."

\* s.split(".")[0]: the text before the first '.'
RECURSIVE BeforeFirstDot(_)
BeforeFirstDot(s) ==
    IF s = <<>> \/ Head(s) = "." THEN <<>>
    ELSE <<Head(s)>> \o BeforeFirstDot(Tail(s))

\* s.rsplit(".", 1) of a string that holds a '.': the texts around the last '.'
RSplitDot(s) ==
    LET k == CHOOSE i \in 1..Len(s) :
                 s[i] = "." /\ \A j \in (i + 1)..Len(s) : s[j] # "."
    IN  <<SubSeq(s, 1, k - 1), SubSeq(s, k + 1, Len(s))>>

\* entry.startswith("man")
StartsWithMan(s) == Len(s) >= 3 /\ SubSeq(s, 1, 3) = <<"m", "a", "n">>

\* entry[3:]
SectionOf(s) == SubSeq(s, 4, Len(s))

\* sub in s, as a scan over the start positions
RECURSIVE InFrom(_, _, _)
InFrom(sub, s, i) ==
    IF i + Len(sub) - 1 > Len(s) THEN FALSE
    ELSE IF SubSeq(s, i, i + Len(sub) - 1) = sub THEN TRUE
    ELSE InFrom(sub, s, i + 1)

In(sub, s) == InFrom(sub, s, 1)

(***************************************************************************)
(* populate_tree: the scan, the section order, the tree.                   *)
(***************************************************************************)
\* the sort key of a section without leading digits
NoDigitsKey == 999

IsDigit(c) == c \in {"0", "1", "2", "3", "4", "5", "6", "7", "8", "9"}

\* re.match(r'\d+', key).group(): the leading run of digits, <<>> when there is no match
RECURSIVE LeadingDigits(_)
LeadingDigits(s) ==
    IF s # <<>> /\ IsDigit(Head(s)) THEN <<Head(s)>> \o LeadingDigits(Tail(s))
    ELSE <<>>

\* int(digits)
RECURSIVE ParseInt(_)
ParseInt(d) ==
    IF d = <<>> THEN 0
    ELSE 10 * ParseInt(SubSeq(d, 1, Len(d) - 1)) + (Ord(d[Len(d)]) - Ord("0"))

section_sort_key(key) ==
    LET d == LeadingDigits(key)
    IN  IF d # <<>> THEN <<ParseInt(d), key>> ELSE <<NoDigitsKey, key>>

\* k1 < k2 on the (int, str) key tuples
KeyLess(k1, k2) ==
    k1[1] < k2[1] \/ (k1[1] = k2[1] /\ StrLess(k1[2], k2[2]))

\* sorted(os.listdir(...)): the names of a directory in string order
RECURSIVE SortedNames(_)
SortedNames(S) ==
    IF S = {} THEN <<>>
    ELSE LET m == CHOOSE x \in S : \A y \in S : x = y \/ StrLess(x, y)
         IN  <<m>> \o SortedNames(S \ {m})

\* sorted(section_map.keys(), key=section_sort_key)
RECURSIVE SortedSections(_)
SortedSections(S) ==
    IF S = {} THEN <<>>
    ELSE LET m == CHOOSE x \in S :
                      \A y \in S : x = y \/ KeyLess(section_sort_key(x), section_sort_key(y))
         IN  <<m>> \o SortedSections(S \ {m})

\* the place of e in an already sorted list: after every element that is not greater
RECURSIVE InsertEntry(_, _)
InsertEntry(e, sorted) ==
    IF sorted = <<>> THEN <<e>>
    ELSE IF StrLess(e.text, Head(sorted).text) THEN <<e>> \o sorted
    ELSE <<Head(sorted)>> \o InsertEntry(e, Tail(sorted))

\* sorted(section_map[section]): the labels of a section in string order (stable)
RECURSIVE SortedEntries(_)
SortedEntries(es) ==
    IF es = <<>> THEN <<>>
    ELSE InsertEntry(es[Len(es)], SortedEntries(SubSeq(es, 1, Len(es) - 1)))

\* section_map.setdefault(section, []).append(e)
MapAppend(m, section, e) ==
    IF section \in DOMAIN m THEN [m EXCEPT ![section] = Append(@, e)]
    ELSE m @@ (section :> <<e>>)

\* a scan that keeps no record of the pages it has seen
AlreadySeenNever(seen, name, section) == FALSE

\* (name, section) in seen
AlreadySeen(seen, name, section) == <<name, section>> \in seen

\* the entry appended for a file: the label f"{name}.{section}", with the pair added to
\* seen and the place it was found (path index, file name) kept beside it
NewEntry(name, section, p, file) ==
    [text |-> name \o <<".">> \o section, hidden |-> FALSE,
     name |-> name, section |-> section, origin |-> <<p, file>>]

\* the loop over sorted(os.listdir(full_path))
RECURSIVE ScanFiles(_, _, _, _)
ScanFiles(acc, files, section, p) ==
    IF files = <<>> THEN acc
    ELSE LET file == Head(files)
             name == BeforeFirstDot(file)
             next == IF ~HasDot(file) THEN acc
                     ELSE IF AlreadySeen(acc.seen, name, section) THEN acc
                     ELSE [acc EXCEPT
                              !.seen = @ \cup {<<name, section>>},
                              !.section_map =
                                  MapAppend(@, section, NewEntry(name, section, p, file))]
         IN  ScanFiles(next, Tail(files), section, p)

\* the loop over sorted(os.listdir(path)); only FileNotFoundError is caught
RECURSIVE ScanEntries(_, _, _, _)
ScanEntries(acc, entries, path, p) ==
    IF entries = <<>> \/ acc.raised # "none" THEN acc
    ELSE LET entry == Head(entries)
             d == CHOOSE x \in path.dirs : x.name = entry
             next ==
                 IF StartsWithMan(entry) /\ d.isdir
                 THEN CASE d.listing = "ok" ->
                               ScanFiles(acc, SortedNames(d.files), SectionOf(entry), p)
                        [] d.listing = "missing" -> acc
                        [] d.listing = "denied" ->
                               [acc EXCEPT !.raised = "PermissionError"]
                 ELSE acc
         IN  ScanEntries(next, Tail(entries), path, p)

\* the loop over manpaths; os.listdir(path) is outside the try
RECURSIVE ScanPaths(_, _, _)
ScanPaths(acc, paths, p) ==
    IF p > Len(paths) \/ acc.raised # "none" THEN acc
    ELSE LET path == paths[p]
             next ==
                 CASE path.state = "missing" -> acc
                   [] path.state = "denied" -> [acc EXCEPT !.raised = "PermissionError"]
                   [] path.state = "ok" ->
                          ScanEntries(acc, SortedNames({x.name : x \in path.dirs}), path, p)
         IN  ScanPaths(next, paths, p + 1)

ScanStart == [section_map |-> <<>>, seen |-> {}, raised |-> "none"]

RootText == <<"M", "a", "n", " ", "P", "a", "g", "e", "s">>

SectionText(section) == <<"S", "e", "c", "t", "i", "o", "n", " ">> \o section

\* the tree after self.tree.clear() and addTopLevelItem(root)
EmptyTree == [text |-> RootText, children |-> <<>>]

\* the section items with their entry items, in order
BuildTree(section_map) ==
    LET order == SortedSections(DOMAIN section_map)
    IN  [text |-> RootText,
         children |->
             [i \in 1..Len(order) |->
                 [text |-> SectionText(order[i]), hidden |-> FALSE,
                  section |-> order[i],
                  children |-> SortedEntries(section_map[order[i]])]]]

\* populate_tree as a whole: the exception it raises, if any, and the tree it leaves
populate_tree(paths) ==
    LET acc == ScanPaths(ScanStart, paths, 1)
    IN  IF acc.raised # "none"
        THEN [raised |-> acc.raised, tree |-> EmptyTree]
        ELSE [raised |-> "none", tree |-> BuildTree(acc.section_map)]

(***************************************************************************)
(* The handlers' record and the state before any handler ran.              *)
(***************************************************************************)
\* what the handler that ran last was given and which renderer request it made
\* (for the bookkeeping of the properties; the program keeps no such record)
Ev(op, query, item, invoked, request, outcome) ==
    [op |-> op, query |-> query, item |-> item, invoked |-> invoked,
     request |-> request, outcome |-> outcome]

NoEvent == Ev("none", <<>>, <<>>, FALSE, <<>>, "none")

\* __init__ before init_ui and populate_tree: no matches, index -1, blank label, empty text
ViewerStart ==
    /\ text_area = <<>>
    /\ man_search_text = <<>>
    /\ search_matches = <<>>
    /\ current_match_index = -1
    /\ match_label = <<>>
    /\ highlighted = {}
    /\ text_cursor = <<0, 0>>
    /\ last = NoEvent

\* the entry items of the tree, by position
EntryPositions ==
    UNION {{<<i, j>> : j \in 1..Len(tree.children[i].children)} :
              i \in 1..Len(tree.children)}

EntryAt(pos) == tree.children[pos[1]].children[pos[2]]

(***************************************************************************)
(* filter_tree.                                                            *)
(***************************************************************************)
\* a filter that compares the query with the label as it is written
EntryMatchesAsWritten(query, text) == In(query, text)

\* match = query in entry_text, with entry_text = entry_item.text(0).lower()
EntryMatches(query, text) == In(query, Lower(text))

\* the inner loop: setHidden(not match) on each entry item, visible = visible or match
RECURSIVE FilterEntries(_, _, _, _)
FilterEntries(children, query, j, visible) ==
    IF j > Len(children) THEN [children |-> children, visible |-> visible]
    ELSE LET match == EntryMatches(query, children[j].text)
         IN  FilterEntries([children EXCEPT ![j].hidden = ~match], query, j + 1,
                           visible \/ match)

\* the outer loop: each section item is hidden unless one of its entries matched
filter_tree(t, text) ==
    LET query == Lower(Strip(text))
    IN  [t EXCEPT !.children =
            [i \in 1..Len(t.children) |->
                LET r == FilterEntries(t.children[i].children, query, 1, FALSE)
                IN  [t.children[i] EXCEPT !.children = r.children,
                                          !.hidden = ~r.visible]]]

\* the characters typed into the filter field
FilterChars == {"C", "z", " "}

FilterTexts == UNION {[1..n -> FilterChars] : n \in 0..MaxFilterLen}

\* textChanged of the filter field
FilterTree ==
    /\ pc = "ready"
    /\ \E text \in FilterTexts :
           /\ tree' = filter_tree(tree, text)
           /\ last' = Ev("filter_tree", text, <<>>, FALSE, <<>>, "none")
    /\ UNCHANGED <<manpaths, pc, text_area, man_search_text, search_matches,
                   current_match_index, match_label, highlighted, text_cursor>>

(***************************************************************************)
(* The texts the renderer hands to display_man.                            *)
(***************************************************************************)
Doc_aAaa == <<"a", "A", "a", "a">>

Doc_ab_a == <<"a", "b", " ", "a">>

\* f"Error loading man page: {e}", for the exception text "x"
ErrorText ==
    <<"E", "r", "r", "o", "r", " ", "l", "o", "a", "d", "i", "n", "g", " ",
      "m", "a", "n", " ", "p", "a", "g", "e", ":", " ">> \o <<"x">>

\* what "man {section} {name} | col -bx" can do: print the page, exit non-zero
\* with nothing on stdout (subprocess.run is called without check=True, so
\* this raises nothing), or fail to run at all (subprocess.run raises)
RendererOutcomes ==
    {[kind |-> "ok", stdout |-> d] : d \in {Doc_aAaa, Doc_ab_a}}
    \cup {[kind |-> "nonzero", stdout |-> <<>>], [kind |-> "raised", stdout |-> <<>>]}

\* every text display_man can put into the text area, and the empty text of a new QTextEdit
Texts ==
    {<<>>, ErrorText} \cup {out.stdout : out \in RendererOutcomes}

(***************************************************************************)
(* display_man.                                                            *)
(***************************************************************************)
\* the items of the tree: <<>> the root, <<i>> a section item, <<i, j>> an entry item
Items == {<<>>} \cup {<<i>> : i \in 1..Len(tree.children)} \cup EntryPositions

ItemText(item) ==
    CASE Len(item) = 0 -> tree.text
      [] Len(item) = 1 -> tree.children[item[1]].text
      [] Len(item) = 2 -> EntryAt(item).text

\* an item can be clicked when neither it nor its section item is hidden
Clickable(item) ==
    CASE Len(item) = 0 -> TRUE
      [] Len(item) = 1 -> ~tree.children[item[1]].hidden
      [] Len(item) = 2 -> ~tree.children[item[1]].hidden /\ ~EntryAt(item).hidden

\* the cursors of search_matches after setPlainText replaced the text they
\* pointed into: the list keeps its length, Qt re-anchors every cursor
StaleCursor == <<-1, -1>>

\* itemClicked
DisplayMan ==
    /\ pc = "ready"
    /\ \E item \in Items :
           /\ Clickable(item)
           /\ LET man_entry == ItemText(item)
              IN  IF ~HasDot(man_entry)
                  THEN /\ last' = Ev("display_man", <<>>, item, FALSE, <<>>, "none")
                       /\ UNCHANGED <<text_area, search_matches, highlighted, text_cursor>>
                  ELSE \E out \in RendererOutcomes :
                           /\ text_area' = IF out.kind = "raised" THEN ErrorText
                                           ELSE out.stdout
                           /\ search_matches' =
                                  [k \in 1..Len(search_matches) |-> StaleCursor]
                           /\ highlighted' = {}
                           /\ text_cursor' = <<0, 0>>
                           /\ last' = Ev("display_man", <<>>, item, TRUE,
                                         RSplitDot(man_entry), out.kind)
    /\ UNCHANGED <<manpaths, tree, pc, man_search_text, current_match_index,
                   match_label>>

(***************************************************************************)
(* highlight_matches and focus_match.                                      *)
(***************************************************************************)
\* a find that was given the FindCaseSensitively flag
SameTextAtCaseSensitive(doc, query, from) ==
    \A i \in 1..Len(query) : doc[from + i] = query[i]

\* how QTextDocument.find compares the query with the text at offset from
\* when it is given no FindCaseSensitively flag: without regard to case
SameTextAt(doc, query, from) ==
    \A i \in 1..Len(query) : LowerChar(doc[from + i]) = LowerChar(query[i])

\* doc.find(query, cursor) for a cursor whose selection ends at from (or that
\* stands at from without a selection): the start of the first occurrence at
\* or after from, -1 for the null cursor
RECURSIVE DocFind(_, _, _)
DocFind(doc, query, from) ==
    IF from + Len(query) > Len(doc) THEN -1
    ELSE IF SameTextAt(doc, query, from) THEN from
    ELSE DocFind(doc, query, from + 1)

\* the while loop: each match is appended and the next search starts at its end
RECURSIVE FindAll(_, _, _)
FindAll(doc, query, from) ==
    LET k == DocFind(doc, query, from)
    IN  IF k = -1 THEN <<>>
        ELSE <<<<k, k + Len(query)>>>> \o FindAll(doc, query, k + Len(query))

\* an index kept in range by clamping instead of wrapping
FocusIndexClamped(index, n) ==
    IF index < 0 THEN 0 ELSE IF index >= n THEN n - 1 ELSE index

\* index % len(self.search_matches)
FocusIndex(index, n) == index % n

\* focus_match(index) on the given list of matches: the new text cursor,
\* current index and label, or no change when the list is empty
focus_match(matches, index, cursor, current, label) ==
    IF matches = <<>> THEN [cursor |-> cursor, current |-> current, label |-> label]
    ELSE LET i == FocusIndex(index, Len(matches))
         IN  [cursor |-> matches[i + 1], current |-> i, label |-> <<i + 1, Len(matches)>>]

\* the characters typed into the highlight query field
QueryChars == {"a", "A", " "}

QueryTexts == UNION {[1..n -> QueryChars] : n \in 0..MaxQueryLen}

\* the matches of each stripped, non-empty query text in each text, by the loop
\* of highlight_matches; "@@ <<>>" has TLC tabulate the function once instead of
\* running the loop again at every step that searches
Found ==
    [doc \in Texts |->
        [text \in QueryTexts |->
            IF Strip(text) = <<>> THEN <<>> ELSE FindAll(doc, Strip(text), 0)] @@ <<>>]
    @@ <<>>

\* returnPressed of the query field or a click on "Search...", with the text
\* the field holds by then
HighlightMatches ==
    /\ pc = "ready"
    /\ \E text \in QueryTexts :
           /\ man_search_text' = text
           /\ last' = Ev("highlight_matches", text, <<>>, FALSE, <<>>, "none")
           /\ LET query == Strip(text)
              IN  IF query = <<>>
                  THEN UNCHANGED <<search_matches, current_match_index, match_label,
                                   highlighted, text_cursor>>
                  ELSE LET found == Found[text_area][text]
                           f == focus_match(found, 0, <<0, 0>>, -1, match_label)
                       IN  /\ search_matches' = found
                           /\ highlighted' = {found[k] : k \in 1..Len(found)}
                           /\ text_cursor' = f.cursor
                           /\ current_match_index' = f.current
                           /\ match_label' = f.label
    /\ UNCHANGED <<manpaths, tree, pc, text_area>>

\* a click on Prev (by = -1) or Next (by = 1): focus_match(current_match_index + by)
Navigate(op, by) ==
    /\ pc = "ready"
    /\ LET f == focus_match(search_matches, current_match_index + by, text_cursor,
                            current_match_index, match_label)
       IN  /\ text_cursor' = f.cursor
           /\ current_match_index' = f.current
           /\ match_label' = f.label
    /\ last' = Ev(op, <<>>, <<>>, FALSE, <<>>, "none")
    /\ UNCHANGED <<manpaths, tree, pc, text_area, man_search_text, search_matches,
                   highlighted>>

PrevClicked == Navigate("focus_prev", -1)

NextClicked == Navigate("focus_next", 1)

(***************************************************************************)
(* The search paths the scan is run on.                                    *)
(***************************************************************************)
File_ls_1 == <<"l", "s", ".", "1">>

File_ls_1_gz == <<"l", "s", ".", "1", ".", "g", "z">>

File_README == <<"R", "E", "A", "D", "M", "E">>

ManDir(section) == <<"m", "a", "n">> \o section

\* one name of a search-path directory as os.listdir, os.path.isdir and the
\* listing of it can find it: a directory that lists, one removed in between,
\* one whose listing is denied
DirChoices(name, fileSets) ==
    {[name |-> name, isdir |-> TRUE, listing |-> "ok", files |-> fs] : fs \in fileSets}
    \cup {[name |-> name, isdir |-> TRUE, listing |-> l, files |-> {}] :
             l \in {"missing", "denied"}}

OptDir(name, fileSets) == {{}} \cup {{d} : d \in DirChoices(name, fileSets)}

\* search-path directories holding man1 and man1.Z (the compressed-page
\* directory of HP-UX), each with the page ls.1, its compressed twin, or both
SharedPaths ==
    {[state |-> "ok", dirs |-> d1 \cup d2] :
        d1 \in OptDir(ManDir(<<"1">>), SUBSET {File_ls_1, File_ls_1_gz}),
        d2 \in OptDir(ManDir(<<"1", ".", "Z">>), SUBSET {File_ls_1, File_ls_1_gz})}
    \cup {[state |-> s, dirs |-> {}] : s \in {"missing", "denied"}}

SectionNames ==
    {<<>>, <<"1">>, <<"3">>, <<"3", "p">>, <<"n">>, <<"1", "0">>,
     <<"1", "0", "0", "0">>}

\* what else a search-path directory holds: a translation directory, a plain file
OtherEntries ==
    {{},
     {[name |-> <<"d", "e">>, isdir |-> TRUE, listing |-> "ok", files |-> {File_ls_1}]},
     {[name |-> ManDir(<<"9">>), isdir |-> FALSE, listing |-> "ok", files |-> {}]}}

\* one search-path directory with up to MaxSections section directories
SectionPaths ==
    {[state |-> "ok",
      dirs |-> {[name |-> ManDir(s), isdir |-> TRUE, listing |-> "ok",
                 files |-> {File_ls_1, File_README}] : s \in S} \cup o] :
        S \in {T \in SUBSET SectionNames : Cardinality(T) <= MaxSections},
        o \in OtherEntries}

CatalogInputs ==
    UNION {[1..n -> SharedPaths] : n \in 0..MaxPaths}
    \cup {<<p>> : p \in SectionPaths}

(***************************************************************************)
(* SpecCatalog: the constructor's scan, on every search path of the        *)
(* bounds.                                                                 *)
(***************************************************************************)
InitCatalog ==
    /\ manpaths \in CatalogInputs
    /\ tree = EmptyTree
    /\ pc = "init"
    /\ ViewerStart

\* __init__ calling populate_tree: it returns with the tree built, or raises
PopulateTree ==
    /\ pc = "init"
    /\ LET r == populate_tree(manpaths)
       IN  /\ tree' = r.tree
           /\ pc' = IF r.raised = "none" THEN "ready" ELSE "raised"
    /\ last' = Ev("populate_tree", <<>>, <<>>, FALSE, <<>>, "none")
    /\ UNCHANGED <<manpaths, text_area, man_search_text, search_matches,
                   current_match_index, match_label, highlighted, text_cursor>>

NextCatalog == PopulateTree

SpecCatalog == InitCatalog /\ [][NextCatalog]_vars

(***************************************************************************)
(* What the scan is measured against: the pages the readable directories   *)
(* of the search path hold.                                                *)
(***************************************************************************)
\* every file of every listed man* directory of every existing search-path
\* directory that names a page, with the page's name and section
Occurrences(paths) ==
    UNION {UNION {{[p |-> p, file |-> f, name |-> BeforeFirstDot(f),
                    section |-> SectionOf(d.name)] :
                       f \in {g \in d.files : HasDot(g)}} :
                  d \in {x \in paths[p].dirs :
                            StartsWithMan(x.name) /\ x.isdir /\ x.listing = "ok"}} :
           p \in {q \in 1..Len(paths) : paths[q].state = "ok"}}

\* o comes before every other occurrence of its page in scan order
IsFirstOccurrence(o, occ) ==
    \A o2 \in occ :
        (o2.name = o.name /\ o2.section = o.section /\ o2 # o)
            => (o.p < o2.p \/ (o.p = o2.p /\ StrLess(o.file, o2.file)))

\* C6: once the scan has completed, no two entry items of the catalog carry
\* the same (name, section) pair, every page of a scanned directory has its
\* entry, and each entry is the occurrence of its page that comes first in
\* scan order (search-path order, then directory name, then file name).
C6_NoDuplicateEntries ==
    pc = "ready" =>
        LET occ == Occurrences(manpaths)
        IN  /\ \A a, b \in EntryPositions :
                   (EntryAt(a).name = EntryAt(b).name
                    /\ EntryAt(a).section = EntryAt(b).section) => a = b
            /\ \A o \in occ :
                   \E a \in EntryPositions :
                       EntryAt(a).name = o.name /\ EntryAt(a).section = o.section
            /\ \A a \in EntryPositions :
                   \E o \in occ :
                       /\ o.name = EntryAt(a).name
                       /\ o.section = EntryAt(a).section
                       /\ EntryAt(a).origin = <<o.p, o.file>>
                       /\ IsFirstOccurrence(o, occ)

\* a page found in two search-path directories, and twice in one of them, has one entry
C6_Witness ==
    /\ pc = "ready"
    /\ \E o1, o2, o3 \in Occurrences(manpaths) :
           /\ o1.name = o2.name /\ o1.section = o2.section /\ o1.p < o2.p
           /\ o3.name = o1.name /\ o3.section = o1.section
           /\ o3.p = o1.p /\ o3.file # o1.file
    /\ EntryPositions # {}

\* the section has a leading run of decimal digits
HasLeadingDigits(section) == section # <<>> /\ IsDigit(section[1])

\* C7: the sections are ordered by the integer value of their leading digits,
\* every section without leading digits follows every section with leading
\* digits whatever its value, and ties go by the identifier.
C7_SectionOrder ==
    pc = "ready" =>
        \A i, j \in 1..Len(tree.children) :
            i < j =>
                LET a == tree.children[i].section
                    b == tree.children[j].section
                    na == ParseInt(LeadingDigits(a))
                    nb == ParseInt(LeadingDigits(b))
                IN  \/ HasLeadingDigits(a) /\ ~HasLeadingDigits(b)
                    \/ /\ HasLeadingDigits(a) /\ HasLeadingDigits(b)
                       /\ (na < nb \/ (na = nb /\ StrLess(a, b)))
                    \/ /\ ~HasLeadingDigits(a) /\ ~HasLeadingDigits(b)
                       /\ StrLess(a, b)

\* C8: the scan never raises, whatever directories are missing or denied, and
\* the catalog holds the pages of all the directories that could be read.
C8_ScanAlwaysCompletes ==
    pc # "init" =>
        /\ pc = "ready"
        /\ {<<EntryAt(a).name, EntryAt(a).section>> : a \in EntryPositions}
               = {<<o.name, o.section>> : o \in Occurrences(manpaths)}

(***************************************************************************)
(* SpecTree: the running application's tree, filtered and clicked.         *)
(***************************************************************************)
File_cat_1 == <<"c", "a", "t", ".", "1">>

\* a search-path directory with the pages ls and cat in man1 and the page ls
\* in man1.Z and in man (the empty section identifier)
TreePaths ==
    {[state |-> "ok", dirs |-> d1 \cup d2 \cup d3] :
        d1 \in OptDir(ManDir(<<"1">>), SUBSET {File_ls_1, File_cat_1}),
        d2 \in OptDir(ManDir(<<"1", ".", "Z">>), {{File_ls_1}}),
        d3 \in OptDir(ManDir(<<>>), {{File_ls_1}})}

\* the search paths on which the constructor returns
TreeInputs ==
    {m \in {<<p>> : p \in TreePaths} : populate_tree(m).raised = "none"}

InitTree ==
    /\ manpaths \in TreeInputs
    /\ tree = populate_tree(manpaths).tree
    /\ pc = "ready"
    /\ ViewerStart

NextTree == FilterTree \/ DisplayMan

SpecTree == InitTree /\ [][NextTree]_vars

\* the text with the spaces at its two ends removed, said without Strip: the
\* slice between a leading and a trailing run of spaces that neither begins
\* nor ends with a space
Trimmed(text) ==
    CHOOSE m \in {SubSeq(text, a + 1, Len(text) - b) :
                     a \in 0..Len(text), b \in 0..Len(text)} :
        \E a, b \in 0..Len(text) :
            /\ a + b <= Len(text)
            /\ m = SubSeq(text, a + 1, Len(text) - b)
            /\ \A k \in 1..a : text[k] = " "
            /\ \A k \in (Len(text) - b + 1)..Len(text) : text[k] = " "
            /\ (m = <<>> \/ (m[1] # " " /\ m[Len(m)] # " "))

\* sub occurs in s at some position
OccursIn(sub, s) ==
    \E k \in 1..(Len(s) + 1) :
        k + Len(sub) - 1 <= Len(s) /\ SubSeq(s, k, k + Len(sub) - 1) = sub

\* the tree with every item shown
Unhidden(t) ==
    [t EXCEPT !.children =
        [i \in 1..Len(t.children) |->
            [t.children[i] EXCEPT
                !.hidden = FALSE,
                !.children = [j \in 1..Len(t.children[i].children) |->
                                 [t.children[i].children[j] EXCEPT !.hidden = FALSE]]]]]

\* C4: after filter_tree(q), whatever was filtered before, an entry item is
\* visible iff the trimmed, lowercased q occurs in its lowercased label, a
\* section item is visible iff one of its entry items is, and nothing but the
\* visibility of the items has changed.
C4_FilterVisibility ==
    last.op = "filter_tree" =>
        LET q == Lower(Trimmed(last.query))
        IN  /\ \A a \in EntryPositions :
                   ~EntryAt(a).hidden <=> OccursIn(q, Lower(EntryAt(a).text))
            /\ \A i \in 1..Len(tree.children) :
                   ~tree.children[i].hidden <=>
                       \E j \in 1..Len(tree.children[i].children) :
                           ~tree.children[i].children[j].hidden
            /\ Unhidden(tree) = populate_tree(manpaths).tree

\* an upper-case query with a space before it: one section shows one of its
\* two entries, another section is hidden
C4_Witness ==
    /\ last.op = "filter_tree"
    /\ last.query = <<" ", "C">>
    /\ \E i \in 1..Len(tree.children) : tree.children[i].hidden
    /\ \E a, b \in EntryPositions :
           a[1] = b[1] /\ EntryAt(a).hidden /\ ~EntryAt(b).hidden

\* C9: clicking an entry item requests the renderer with the (name, section)
\* pair the scan recorded for it; clicking a section item or the root requests
\* nothing and leaves the document as it was.
C9_SelectionRequest ==
    [][last'.op = "display_man" =>
          IF Len(last'.item) = 2
          THEN /\ last'.invoked
               /\ last'.request = <<EntryAt(last'.item).name, EntryAt(last'.item).section>>
          ELSE /\ ~last'.invoked
               /\ text_area' = text_area]_vars

(***************************************************************************)
(* Spec: the running viewer with a page of ls in man1 and in man1.Z.       *)
(***************************************************************************)
ViewerPaths ==
    <<[state |-> "ok",
       dirs |-> {[name |-> ManDir(<<"1">>), isdir |-> TRUE, listing |-> "ok",
                  files |-> {File_ls_1}],
                 [name |-> ManDir(<<"1", ".", "Z">>), isdir |-> TRUE, listing |-> "ok",
                  files |-> {File_ls_1}]}]>>

Init ==
    /\ manpaths = ViewerPaths
    /\ tree = populate_tree(manpaths).tree
    /\ pc = "ready"
    /\ ViewerStart

Next == DisplayMan \/ HighlightMatches \/ PrevClicked \/ NextClicked

Spec == Init /\ [][Next]_vars

\* C1: a load of an entry leaves the Match Set empty, the match index unset
\* and the status label blank, whatever was searched and navigated before.
C1_LoadResetsSearch ==
    (last.op = "display_man" /\ last.invoked) =>
        /\ search_matches = <<>>
        /\ current_match_index = -1
        /\ match_label = <<>>

\* C2: a load whose renderer fails, by a non-zero exit or by raising, shows
\* "Error loading man page: <details>" and returns normally.
C2_RendererFailureShown ==
    (last.op = "display_man" /\ last.invoked /\ last.outcome \in {"nonzero", "raised"}) =>
        /\ text_area = ErrorText
        /\ pc = "ready"

\* the spans of the document at which q stands, with or without regard to case
OccurrenceStarts(doc, q, anyCase) ==
    {k \in 0..(Len(doc) - Len(q)) :
        LET piece == SubSeq(doc, k + 1, k + Len(q))
        IN  IF anyCase THEN Lower(piece) = Lower(q) ELSE piece = q}

\* spans is the list of the non-overlapping occurrences taken from left to
\* right: each span is an occurrence, each begins at or after the end of the
\* one before, and every occurrence is a span or begins inside one
IsMatchSet(spans, doc, q, anyCase) ==
    LET starts == OccurrenceStarts(doc, q, anyCase)
    IN  /\ \A i \in 1..Len(spans) :
               spans[i][1] \in starts /\ spans[i][2] = spans[i][1] + Len(q)
        /\ \A i \in 1..(Len(spans) - 1) : spans[i][2] <= spans[i + 1][1]
        /\ \A k \in starts :
               \E i \in 1..Len(spans) : spans[i][1] <= k /\ k < spans[i][2]

\* after a search: the Match Set for q, index 0 focused when there is a match
SearchResultIs(q, anyCase) ==
    /\ IsMatchSet(search_matches, text_area, q, anyCase)
    /\ search_matches # <<>> => current_match_index = 0

CycleStep(by) ==
    LET n == Len(search_matches)
        to == current_match_index + by
    IN  IF n > 0
        THEN /\ current_match_index \in 0..(n - 1)
             /\ current_match_index' = IF to = n THEN 0 ELSE IF to = -1 THEN n - 1 ELSE to
             /\ match_label' = <<current_match_index' + 1, n>>
             /\ search_matches' = search_matches
        ELSE /\ current_match_index' = current_match_index
             /\ match_label' = match_label
             /\ search_matches' = search_matches

\* C5: with N > 0 matches and current index i, Next moves to (i + 1) mod N and
\* Prev to (i - 1) mod N, so that N clicks of either visit every match and
\* return to i; with no match, Next and Prev change neither index nor label.
C5_NavigationCycles ==
    [][/\ last'.op = "focus_next" => CycleStep(1)
       /\ last'.op = "focus_prev" => CycleStep(-1)]_vars

\* Prev has wrapped from the first match to the last of at least three
C5_Witness ==
    /\ last.op = "focus_prev"
    /\ Len(search_matches) >= 3
    /\ current_match_index = Len(search_matches) - 1
    /\ match_label = <<Len(search_matches), Len(search_matches)>>

\* C10: after a highlight search or a click on Prev or Next the label agrees
\* with the search state: blank when the Match Set is empty, otherwise
\* "(index + 1) of (length)" with the index in [0, length).
C10_LabelAgrees ==
    last.op \in {"highlight_matches", "focus_prev", "focus_next"} =>
        IF search_matches = <<>> THEN match_label = <<>>
        ELSE /\ current_match_index \in 0..(Len(search_matches) - 1)
             /\ match_label = <<current_match_index + 1, Len(search_matches)>>

====
